---- MODULE Spec2Model ----
(***************************************************************************)
(* Model of the fcntl crate (src/src/lib.rs): the wrapper `fcntl` around   *)
(* the fcntl(2) record-locking commands and the convenience functions      *)
(* is_file_locked, lock_file and unlock_file.                              *)
(*                                                                         *)
(* One process (the caller) uses the crate on one open handle of one file. *)
(* The kernel's lock table for that file is part of the state, and other   *)
(* processes take and release locks on the same file.  Numeric values are  *)
(* those of libc on Linux (the #[cfg(not(target_os = "macos"))] build).    *)
(***************************************************************************)
EXTENDS Integers, FiniteSets

(***************************************************************************)
(* Bounds of the model.                                                    *)
(***************************************************************************)
\* File offsets 0..MaxByte are tracked byte by byte; Tail stands for every
\* offset above MaxByte (a lock with l_len = 0 reaches it).
MaxByte == 0
\* Number of other processes that lock the same file.
NumOthers == 1

(***************************************************************************)
(* libc constants the source names (Linux values).                         *)
(***************************************************************************)
F_RDLCK == 0
F_WRLCK == 1
F_UNLCK == 2
F_GETLK == 5
F_SETLK == 6
F_SETLKW == 7
F_OFD_SETLKW == 38
EINTR == 4
EBADF == 9
EAGAIN == 11
EACCES == 13
EINVAL == 22
ENOLCK == 37
SEEK_SET == 0
SEEK_CUR == 1

(***************************************************************************)
(* Values.                                                                 *)
(***************************************************************************)
\* Option<T>
None == [tag |-> "None"]
Some(x) == [tag |-> "Some", val |-> x]

\* enum FcntlCmd
FcntlCmd == {"GetLock", "SetLock", "SetLockWait", "OpenFileDescriptorSetLockWait"}

\* enum FcntlLockType
FcntlLockType == {"Read", "Write"}

\* libc::flock values a caller may pass.  l_type ranges over the three lock
\* kinds and one value that is no lock kind; a range with l_len > 0 ends at
\* or below MaxByte.
Tail == MaxByte + 1
Cells == 0 .. Tail
LTypes == {F_RDLCK, F_WRLCK, F_UNLCK, 3}
Whences == {SEEK_SET, SEEK_CUR}
Pids == {0, 1}
Flocks == { f \in [l_type : LTypes, l_whence : Whences, l_start : Cells,
                    l_len : 0 .. Tail, l_pid : Pids] :
              f.l_len = 0 \/ f.l_start + f.l_len - 1 <= MaxByte }

\* enum FcntlArg: its only variant
Flock(f) == [variant |-> "Flock", flock |-> f]

\* enum FcntlError
ErrCommandNotImplemented(cmd) == [kind |-> "CommandNotImplemented", cmd |-> cmd]
ErrErrno(rv, errno) == [kind |-> "Errno", rv |-> rv, errno |-> errno]
ErrInternal == [kind |-> "Internal"]
ErrInvalidArgForCmd == [kind |-> "InvalidArgForCmd"]

\* Result<bool, FcntlError>, Result<FcntlArg, FcntlError>
Ok(v) == [tag |-> "Ok", val |-> v]
OkArg(a) == [tag |-> "Ok", arg |-> a]
Err(e) == [tag |-> "Err", err |-> e]

(***************************************************************************)
(* impl FlockOperations for flock, and the two From conversions.           *)
(***************************************************************************)
flock_default == [l_type |-> 0, l_whence |-> 0, l_start |-> 0, l_len |-> 0, l_pid |-> 0]

\* Faulty variant of with_l_type: the caller's l_type is kept.
with_l_type_kept(f, l_type) == f

with_l_type(f, l_type) == [f EXCEPT !.l_type = l_type]

c_short_from(locktype) == IF locktype = "Read" THEN F_RDLCK ELSE F_WRLCK

with_locktype(f, locktype) == [f EXCEPT !.l_type = c_short_from(locktype)]

\* Faulty variant of c_int_from: SetLockWait is sent as F_SETLK.
c_int_from_nowait(cmd) ==
  CASE cmd = "GetLock" -> F_GETLK
    [] cmd = "SetLock" -> F_SETLK
    [] cmd = "SetLockWait" -> F_SETLK
    [] cmd = "OpenFileDescriptorSetLockWait" -> 38

c_int_from(cmd) ==
  CASE cmd = "GetLock" -> F_GETLK
    [] cmd = "SetLock" -> F_SETLK
    [] cmd = "SetLockWait" -> F_SETLKW
    [] cmd = "OpenFileDescriptorSetLockWait" -> 38

(***************************************************************************)
(* The kernel side of libc::fcntl (lib.rs line 111): the record locks of   *)
(* the file, as fcntl(2) specifies them for Linux.  A lock belongs to an   *)
(* owner: the calling process (Self), the caller's open file description   *)
(* (Ofd, for F_OFD_SETLKW) or another process.  locks[o][c] is the kind of *)
(* lock owner o holds on cell c, F_UNLCK for none.                         *)
(***************************************************************************)
Self == 0
Ofd == -1
Others == 1 .. NumOthers
Owners == {Self, Ofd} \cup Others
Kinds == {F_RDLCK, F_WRLCK}
Modes == {"r", "w", "rw"}

NoLocks == [o \in Owners |-> [c \in Cells |-> F_UNLCK]]

\* The pid F_GETLK reports for a lock of owner o (-1 for an OFD lock).
PidOf(o) == IF o = Ofd THEN -1 ELSE 100 + o

\* The cells a request covers.  The handle's offset is 0 (the crate never
\* reads, writes or seeks), so SEEK_SET and SEEK_CUR both count from 0.
RangeOf(f) ==
  IF f.l_len = 0 THEN {c \in Cells : c >= f.l_start}
  ELSE {c \in Cells : f.l_start <= c /\ c <= f.l_start + f.l_len - 1}

\* A held lock of kind `held` conflicts with a request for kind t.
Conflicts(t, held) ==
  /\ t \in {F_RDLCK, F_WRLCK}
  /\ held # F_UNLCK
  /\ (t = F_WRLCK \/ held = F_WRLCK)

\* The locks of other owners that conflict with owner's request f.
Blockers(lk, owner, f) ==
  {b \in (Owners \ {owner}) \X RangeOf(f) : Conflicts(f.l_type, lk[b[1]][b[2]])}

\* Read locks need a handle open for reading, write locks one open for writing.
ModeAllows(m, t) ==
  /\ t = F_RDLCK => m \in {"r", "rw"}
  /\ t = F_WRLCK => m \in {"w", "rw"}

\* The table after owner sets kind t (F_UNLCK to release) on the range of f.
SetLocks(lk, owner, f, t) ==
  [lk EXCEPT ![owner] = [c \in Cells |-> IF c \in RangeOf(f) THEN t ELSE lk[owner][c]]]

\* What F_GETLK writes back for the lock of owner o that covers cell c: the
\* whole (coalesced) lock, from SEEK_SET.
DescribeLock(lk, o, c) ==
  LET k == lk[o][c]
      lo == CHOOSE a \in 0 .. c :
              /\ \A x \in a .. c : lk[o][x] = k
              /\ (a = 0 \/ lk[o][a - 1] # k)
      hi == CHOOSE b \in c .. Tail :
              /\ \A x \in c .. b : lk[o][x] = k
              /\ (b = Tail \/ lk[o][b + 1] # k)
  IN [l_type |-> k, l_whence |-> SEEK_SET, l_start |-> lo,
      l_len |-> IF hi = Tail THEN 0 ELSE hi - lo + 1, l_pid |-> PidOf(o)]

\* Outcomes of the syscall: it returns rv with errno set and the structure
\* and the lock table as the kernel left them, or the thread blocks.
Ret(f, lk) == [kind |-> "ret", rv |-> 0, errno |-> 0, flock |-> f, locks |-> lk]
Fail(e, f, lk) == [kind |-> "ret", rv |-> -1, errno |-> e, flock |-> f, locks |-> lk]
Block(f, lk) == [kind |-> "block", rv |-> -1, errno |-> 0, flock |-> f, locks |-> lk]

\* fcntl(fd, code, &f) on a handle opened in mode m, with the table lk.
Kernel(code, f, lk, m) ==
  LET owner == IF code = F_OFD_SETLKW THEN Ofd ELSE Self
      bl == Blockers(lk, owner, f)
  IN IF code = F_GETLK
     THEN IF f.l_type \notin Kinds THEN {Fail(EINVAL, f, lk)}
          ELSE IF bl = {} THEN {Ret([f EXCEPT !.l_type = F_UNLCK], lk)}
          ELSE {Ret(DescribeLock(lk, b[1], b[2]), lk) : b \in bl}
     ELSE IF code = F_OFD_SETLKW /\ f.l_pid # 0 THEN {Fail(EINVAL, f, lk)}
     ELSE IF f.l_type = F_UNLCK THEN {Ret(f, SetLocks(lk, owner, f, F_UNLCK))}
     ELSE IF f.l_type \notin Kinds THEN {Fail(EINVAL, f, lk)}
     ELSE IF ~ModeAllows(m, f.l_type) THEN {Fail(EBADF, f, lk)}
     ELSE IF bl # {} THEN (IF code = F_SETLK THEN {Fail(EAGAIN, f, lk)}
                           ELSE {Block(f, lk)})
     ELSE {Ret(f, SetLocks(lk, owner, f, f.l_type))}

\* The file system may also fail any request with an error of its own
\* (its lock method, a full lock table): one of `faults`.
Syscall(code, f, lk, m, faults) ==
  Kernel(code, f, lk, m) \cup {Fail(e, f, lk) : e \in faults}

(***************************************************************************)
(* The crate's functions.  `out` is the outcome of the one syscall the     *)
(* call issues; errno_ptr_null says whether the errno pointer read after   *)
(* a failure was NULL.                                                     *)
(***************************************************************************)
\* fn fcntl: the result it builds from the syscall's outcome.
fcntl(cmd, arg, out, errno_ptr_null) ==
  IF cmd \in FcntlCmd
  THEN IF arg.variant = "Flock"
       THEN IF out.rv = 0
            THEN OkArg(Flock(out.flock))
            ELSE Err(ErrErrno(out.rv, IF errno_ptr_null THEN None ELSE Some(out.errno)))
       ELSE Err(ErrInvalidArgForCmd)
  ELSE Err(ErrCommandNotImplemented(cmd))

\* Faulty variant of fcntl_issues_syscall: only the two commands the doc
\* comment lists reach the syscall.
fcntl_issues_syscall_listed(cmd, arg) ==
  cmd \in {"GetLock", "SetLock"} /\ arg.variant = "Flock"

\* fn fcntl: whether it reaches the syscall at all.
fcntl_issues_syscall(cmd, arg) == cmd \in FcntlCmd /\ arg.variant = "Flock"

\* fn is_file_locked: the argument and command it passes to fcntl, and the
\* result it makes of fcntl's.
is_file_locked_arg(flock) ==
  IF flock.tag = "Some" THEN Flock(flock.val) ELSE Flock(flock_default)

is_file_locked_cmd == "GetLock"

\* Faulty variant of is_file_locked_ret: 0 is taken for the unlocked value.
is_file_locked_ret_zero(r) ==
  IF r.tag = "Ok"
  THEN IF r.arg.variant = "Flock" THEN Ok(r.arg.flock.l_type # 0)
       ELSE Err(ErrInternal)
  ELSE Err(r.err)

is_file_locked_ret(r) ==
  IF r.tag = "Ok"
  THEN IF r.arg.variant = "Flock" THEN Ok(r.arg.flock.l_type # F_UNLCK)
       ELSE Err(ErrInternal)
  ELSE Err(r.err)

\* Faulty variant of lock_file_locktype: a write lock when no kind is given.
lock_file_locktype_write(locktype) ==
  IF locktype.tag = "Some" THEN locktype.val ELSE "Write"

\* fn lock_file
lock_file_locktype(locktype) == IF locktype.tag = "Some" THEN locktype.val ELSE "Read"

lock_file_arg(flock, locktype) ==
  IF flock.tag = "Some"
  THEN Flock(with_locktype(flock.val, lock_file_locktype(locktype)))
  ELSE Flock(with_locktype(flock_default, lock_file_locktype(locktype)))

\* Faulty variant of lock_file_cmd: the non-blocking command.
lock_file_cmd_setlk == "SetLock"

lock_file_cmd == "SetLockWait"

\* Faulty variant of lock_file_ret: EAGAIN is not turned into Ok(false).
lock_file_ret_eacces_only(r) ==
  IF r.tag = "Ok"
  THEN IF r.arg.variant = "Flock" THEN Ok(TRUE) ELSE Err(ErrInternal)
  ELSE IF r.err.kind = "Errno" /\ r.err.errno = Some(EACCES)
       THEN Ok(FALSE)
       ELSE Err(r.err)

lock_file_ret(r) ==
  IF r.tag = "Ok"
  THEN IF r.arg.variant = "Flock" THEN Ok(TRUE) ELSE Err(ErrInternal)
  ELSE IF r.err.kind = "Errno" /\ r.err.errno \in {Some(EACCES), Some(EAGAIN)}
       THEN Ok(FALSE)
       ELSE Err(r.err)

\* fn unlock_file
unlock_file_arg(flock) ==
  IF flock.tag = "Some" THEN Flock(with_l_type(flock.val, F_UNLCK))
  ELSE Flock(with_l_type(flock_default, F_UNLCK))

\* Faulty variant of unlock_file_cmd: the blocking command.
unlock_file_cmd_wait == "SetLockWait"

unlock_file_cmd == "SetLock"

unlock_file_ret(r) ==
  IF r.tag = "Ok"
  THEN IF r.arg.variant = "Flock" THEN Ok(TRUE) ELSE Err(ErrInternal)
  ELSE Err(r.err)

(***************************************************************************)
(* State.                                                                  *)
(***************************************************************************)
VARIABLES
  locks,    \* the kernel's lock table of the file
  mode,     \* how the caller opened its handle: "r", "w" or "rw"
  pc,       \* the caller: "idle", "waiting" (blocked in the syscall), "returned"
  call,     \* the crate function called and its arguments
  sys,      \* what reached the syscall, and the structure as the kernel left it
  nsys,     \* syscalls issued by the current call
  result    \* what the call returned

vars == <<locks, mode, pc, call, sys, nsys, result>>

NoCall == [op |-> "none", cmd |-> "none", flock |-> None, locktype |-> None,
           otherConflict |-> FALSE, otherWrite |-> FALSE, blocked |-> FALSE,
           errno_ptr_null |-> FALSE]
NoSys == [code |-> -1, flock |-> flock_default, rv |-> 0, errno |-> 0,
          ret |-> flock_default]
NoResult == [tag |-> "None"]
Pending == [tag |-> "Pending"]

\* The result of function op, made from fcntl's result r.
Return(op, r) ==
  CASE op = "is_file_locked" -> is_file_locked_ret(r)
    [] op = "lock_file" -> lock_file_ret(r)
    [] op = "unlock_file" -> unlock_file_ret(r)
    [] op = "fcntl" -> r

Init ==
  /\ locks = NoLocks
  /\ mode \in Modes
  /\ pc = "idle"
  /\ call = NoCall
  /\ sys = NoSys
  /\ nsys = 0
  /\ result = NoResult

(***************************************************************************)
(* The caller's steps.                                                     *)
(***************************************************************************)
\* A call of function op, which hands cmd and arg to fcntl.  fcntl issues
\* the syscall; the call returns, or blocks in the syscall.
Invoke(op, cmd, arg, flock, locktype, faults, nulls) ==
  /\ IF fcntl_issues_syscall(cmd, arg)
     THEN \E out \in Syscall(c_int_from(cmd), arg.flock, locks, mode, faults),
             en \in nulls :
            LET bl == {b \in Blockers(locks, Self, arg.flock) : b[1] \in Others} IN
            /\ (out.rv = 0 \/ out.kind = "block") => ~en
            /\ call' = [op |-> op, cmd |-> cmd, flock |-> flock, locktype |-> locktype,
                        otherConflict |-> bl # {},
                        otherWrite |-> \E b \in bl : locks[b[1]][b[2]] = F_WRLCK,
                        blocked |-> out.kind = "block", errno_ptr_null |-> en]
            /\ sys' = [code |-> c_int_from(cmd), flock |-> arg.flock, rv |-> out.rv,
                       errno |-> out.errno, ret |-> out.flock]
            /\ nsys' = nsys + 1
            /\ locks' = out.locks
            /\ IF out.kind = "block"
               THEN pc' = "waiting" /\ result' = Pending
               ELSE pc' = "returned" /\ result' = Return(op, fcntl(cmd, arg, out, en))
     ELSE /\ call' = [NoCall EXCEPT !.op = op, !.cmd = cmd, !.flock = flock,
                                    !.locktype = locktype]
          /\ pc' = "returned"
          /\ result' = Return(op, fcntl(cmd, arg, Ret(flock_default, locks), FALSE))
          /\ UNCHANGED <<sys, nsys, locks>>
  /\ UNCHANGED mode

CallIsFileLocked(flocks, faults, nulls) ==
  \E flock \in flocks :
    /\ pc = "idle"
    /\ Invoke("is_file_locked", is_file_locked_cmd, is_file_locked_arg(flock),
              flock, None, faults, nulls)

CallLockFile(flocks, faults, nulls) ==
  \E flock \in flocks, locktype \in {None} \cup {Some(t) : t \in FcntlLockType} :
    /\ pc = "idle"
    /\ Invoke("lock_file", lock_file_cmd, lock_file_arg(flock, locktype),
              flock, locktype, faults, nulls)

CallUnlockFile(flocks, faults, nulls) ==
  \E flock \in flocks :
    /\ pc = "idle"
    /\ Invoke("unlock_file", unlock_file_cmd, unlock_file_arg(flock),
              flock, None, faults, nulls)

CallFcntl(flocks, faults, nulls) ==
  \E cmd \in FcntlCmd, f \in flocks :
    /\ pc = "idle"
    /\ Invoke("fcntl", cmd, Flock(f), Some(f), None, faults, nulls)

\* The blocked syscall (F_SETLKW, F_OFD_SETLKW) returns once no lock of
\* another owner conflicts with the request: the lock is set.
Grant ==
  /\ pc = "waiting"
  /\ \E out \in Kernel(sys.code, sys.flock, locks, mode) :
       /\ out.kind = "ret"
       /\ locks' = out.locks
       /\ sys' = [sys EXCEPT !.rv = out.rv, !.errno = out.errno, !.ret = out.flock]
       /\ result' = Return(call.op, fcntl(call.cmd, Flock(sys.flock), out, FALSE))
  /\ pc' = "returned"
  /\ UNCHANGED <<mode, call, nsys>>

\* A signal interrupts the blocked syscall: it fails with EINTR.
Interrupt(nulls) ==
  /\ pc = "waiting"
  /\ \E en \in nulls :
       /\ call' = [call EXCEPT !.errno_ptr_null = en]
       /\ sys' = [sys EXCEPT !.rv = -1, !.errno = EINTR]
       /\ result' = Return(call.op, fcntl(call.cmd, Flock(sys.flock),
                                          Fail(EINTR, sys.flock, locks), en))
  /\ pc' = "returned"
  /\ UNCHANGED <<locks, mode, nsys>>

\* The caller takes the result and goes on; the values of the call are dropped.
Resume ==
  /\ pc = "returned"
  /\ pc' = "idle"
  /\ call' = NoCall
  /\ sys' = NoSys
  /\ nsys' = 0
  /\ result' = NoResult
  /\ UNCHANGED <<locks, mode>>

(***************************************************************************)
(* The other processes' steps, taken between the caller's calls or while   *)
(* the caller is blocked.                                                  *)
(***************************************************************************)
\* Process p gets a lock of kind k on cells r: nobody else holds a
\* conflicting lock there.
OtherLock(ranges) ==
  \E p \in Others, k \in Kinds, r \in ranges :
    /\ pc \in {"idle", "waiting"}
    /\ \A o \in Owners \ {p}, c \in r : ~Conflicts(k, locks[o][c])
    /\ \E c \in r : locks[p][c] # k
    /\ locks' = [locks EXCEPT ![p] = [c \in Cells |-> IF c \in r THEN k ELSE locks[p][c]]]
    /\ UNCHANGED <<mode, pc, call, sys, nsys, result>>

\* Process p releases its locks on cells r.
OtherUnlockOf(p, r) ==
  /\ pc \in {"idle", "waiting"}
  /\ \E c \in r : locks[p][c] # F_UNLCK
  /\ locks' = [locks EXCEPT ![p] = [c \in Cells |-> IF c \in r THEN F_UNLCK ELSE locks[p][c]]]
  /\ UNCHANGED <<mode, pc, call, sys, nsys, result>>

OtherUnlock(ranges) ==
  \E p \in Others, r \in ranges :
    /\ r \in ranges
    /\ OtherUnlockOf(p, r)

(***************************************************************************)
(* Specifications.                                                         *)
(***************************************************************************)
\* Arguments a caller passes for `flock: Option<flock>`.
FlockOpts == {None} \cup {Some(f) : f \in Flocks}

\* Errors a file system's own lock method may return, whatever the request.
FaultErrnos == {EACCES, EAGAIN, ENOLCK}

\* Cell sets the other processes lock: any range a flock can name.
AllRanges == {RangeOf(f) : f \in Flocks}

\* Spec: every function with every argument, over a file system that may
\* fail any request; the other processes lock the whole file.
Next ==
  \/ CallIsFileLocked(FlockOpts, FaultErrnos, BOOLEAN)
  \/ CallLockFile(FlockOpts, FaultErrnos, BOOLEAN)
  \/ CallUnlockFile(FlockOpts, FaultErrnos, BOOLEAN)
  \/ CallFcntl(Flocks, FaultErrnos, BOOLEAN)
  \/ Grant
  \/ Interrupt(BOOLEAN)
  \/ Resume
  \/ OtherLock({Cells})
  \/ OtherUnlock({Cells})

Spec == Init /\ [][Next]_vars

\* LockSpec: the three convenience functions on a file system that fails no
\* request of its own, with descriptors that name every range and both
\* kinds; the other processes lock and unlock any range.
PlainFlockOpts ==
  {None} \cup {Some(f) : f \in {g \in Flocks : /\ g.l_type \in Kinds
                                               /\ g.l_whence = SEEK_SET
                                               /\ g.l_pid = 0}}

NextLocks ==
  \/ CallIsFileLocked(PlainFlockOpts, {}, {FALSE})
  \/ CallLockFile(PlainFlockOpts, {}, {FALSE})
  \/ CallUnlockFile(PlainFlockOpts, {}, {FALSE})
  \/ Grant
  \/ Interrupt({FALSE})
  \/ Resume
  \/ OtherLock(AllRanges)
  \/ OtherUnlock(AllRanges)

LockSpec == Init /\ [][NextLocks]_vars

\* FairSpec: LockSpec where the kernel wakes a blocked caller whose request
\* no longer conflicts, and every other process that holds a lock on the
\* file eventually releases its locks.
FairSpec ==
  /\ LockSpec
  /\ WF_vars(Grant)
  /\ \A p \in Others : WF_vars(OtherUnlockOf(p, Cells))

(***************************************************************************)
(* Properties.                                                             *)
(***************************************************************************)
\* The error the caller's errno read yields for the failed syscall.
CapturedErrno == IF call.errno_ptr_null THEN None ELSE Some(sys.errno)

\* The syscall of the returned call failed.
SyscallFailed == pc = "returned" /\ nsys = 1 /\ sys.rv # 0

\* The descriptor the caller passed, the zeroed one when it passed none.
CallerFlock == IF call.flock.tag = "Some" THEN call.flock.val ELSE flock_default

\* C1: error propagation.  When the syscall fails with Errno(rv, e),
\* lock_file returns Ok(false) if e is Some(EACCES) or Some(EAGAIN) and
\* Err(Errno(rv, e)) otherwise, and it returns Ok(false) in no other case;
\* unlock_file and is_file_locked return Err(Errno(rv, e)) for every e.
C1_ErrorPropagation ==
  /\ (SyscallFailed /\ call.op = "lock_file") =>
       IF CapturedErrno \in {Some(EACCES), Some(EAGAIN)}
       THEN result = Ok(FALSE)
       ELSE result = Err(ErrErrno(sys.rv, CapturedErrno))
  /\ (pc = "returned" /\ call.op = "lock_file" /\ result = Ok(FALSE)) =>
       (sys.rv # 0 /\ CapturedErrno \in {Some(EACCES), Some(EAGAIN)})
  /\ (SyscallFailed /\ call.op \in {"unlock_file", "is_file_locked"}) =>
       result = Err(ErrErrno(sys.rv, CapturedErrno))

\* lock_file has turned EAGAIN into Ok(false).
C1_Witness_LockRecovers ==
  /\ SyscallFailed /\ call.op = "lock_file"
  /\ CapturedErrno = Some(EAGAIN) /\ result = Ok(FALSE)

\* C2: the descriptor lock_file and unlock_file send to the syscall has the
\* lock kind the operation decides (the requested kind, Read when none is
\* given; F_UNLCK for unlock_file) and the caller's other fields, all zero
\* when the caller gave no descriptor.
C2_KindOverwritten ==
  /\ (pc # "idle" /\ call.op = "lock_file") =>
       /\ nsys = 1
       /\ sys.flock.l_type =
            (IF call.locktype = Some("Write") THEN F_WRLCK ELSE F_RDLCK)
       /\ \A fld \in {"l_whence", "l_start", "l_len", "l_pid"} :
            sys.flock[fld] = CallerFlock[fld]
  /\ (pc # "idle" /\ call.op = "unlock_file") =>
       /\ nsys = 1
       /\ sys.flock.l_type = F_UNLCK
       /\ \A fld \in {"l_whence", "l_start", "l_len", "l_pid"} :
            sys.flock[fld] = CallerFlock[fld]

\* unlock_file was given a descriptor that asks for a write lock at offset
\* 1, with a pid, and the syscall got F_UNLCK with the other fields.
C2_Witness_Unlock ==
  /\ pc = "returned" /\ call.op = "unlock_file"
  /\ call.flock.tag = "Some"
  /\ CallerFlock.l_type = F_WRLCK /\ CallerFlock.l_start = 1 /\ CallerFlock.l_pid = 1
  /\ sys.flock = [CallerFlock EXCEPT !.l_type = F_UNLCK]

C5_QueryResult ==
  (pc = "returned" /\ call.op = "is_file_locked") =>
    /\ nsys = 1
    /\ sys.flock = CallerFlock
    /\ sys.rv = 0 => result = Ok(sys.ret.l_type # F_UNLCK)

\* The kernel reported a read lock (l_type 0) and is_file_locked said true.
C5_Witness_ReadLockReported ==
  /\ pc = "returned" /\ call.op = "is_file_locked" /\ sys.rv = 0
  /\ sys.ret.l_type = F_RDLCK /\ sys.ret.l_pid = PidOf(1)
  /\ result = Ok(TRUE)

C9_CommandCodes ==
  /\ \A cmd \in FcntlCmd :
       c_int_from(cmd) = (CASE cmd = "GetLock" -> 5
                            [] cmd = "SetLock" -> 6
                            [] cmd = "SetLockWait" -> 7
                            [] cmd = "OpenFileDescriptorSetLockWait" -> 38)
  /\ \A c1, c2 \in FcntlCmd : c_int_from(c1) = c_int_from(c2) => c1 = c2
  /\ nsys = 1 =>
       /\ \E cmd \in FcntlCmd : sys.code = c_int_from(cmd)
       /\ \A cmd \in FcntlCmd : sys.code = c_int_from(cmd) => cmd = call.cmd

\* fcntl was called with OpenFileDescriptorSetLockWait and code 38 went out.
C9_Witness_Ofd ==
  /\ pc = "returned" /\ call.op = "fcntl"
  /\ call.cmd = "OpenFileDescriptorSetLockWait" /\ sys.code = 38
  /\ result.tag = "Ok"

\* Some other process holds a lock, of either kind, on some byte of the file.
OtherHoldsLock == \E p \in Others, c \in Cells : locks[p][c] # F_UNLCK

\* The request of the current lock_file call passes the kernel's checks of
\* the handle: what remains is whether a lock conflicts.
HandleFits == ModeAllows(mode, sys.flock.l_type)

\* No lock of another owner conflicts with the request now.
RequestFree == Blockers(locks, Self, sys.flock) = {}

\* C3: when another process holds a conflicting write lock on the requested
\* range as lock_file is called, the call yields Ok(false).
C3_ConflictYieldsFalse ==
  (pc = "returned" /\ call.op = "lock_file" /\ call.otherWrite /\ HandleFits) =>
    result = Ok(FALSE)

\* C6: is_file_locked(fd, None) returns Ok(true) exactly when some other
\* process holds a lock of either kind on some byte of the file.
C6_LockedIffHeld ==
  (pc = "returned" /\ call.op = "is_file_locked" /\ call.flock = None) =>
    result = Ok(OtherHoldsLock)

\* C7: with a handle open for reading, lock_file(fd, None, None) and
\* unlock_file(fd, None) return Ok(true), without waiting, whenever no other
\* process holds a conflicting lock as they are called (so on a file no
\* other process has locked), whatever the caller itself holds from its
\* earlier calls.
C7_DefaultCallsSucceed ==
  ( /\ pc # "idle"
    /\ call.op \in {"lock_file", "unlock_file"}
    /\ call.flock = None /\ call.locktype = None
    /\ mode \in {"r", "rw"}
    /\ ~call.otherConflict )
  => (pc = "returned" /\ result = Ok(TRUE))

\* lock_file(fd, None, None) has returned Ok(true) on a read-only handle;
\* the caller holds the read lock on the whole file and nobody else a lock.
C7_Witness_Locked ==
  /\ pc = "returned" /\ call.op = "lock_file"
  /\ call.flock = None /\ call.locktype = None
  /\ mode = "r" /\ result = Ok(TRUE)
  /\ \A c \in Cells : locks[Self][c] = F_RDLCK
  /\ ~OtherHoldsLock

====
